---- MODULE Spec2Model ----
(***************************************************************************)
(* SmartAccountSDK (src/src/sdk.ts): a composer of unsigned transactions   *)
(* for the smart-account program.  The model covers the constructor, the   *)
(* address derivation, the five owner operations, the three execute        *)
(* operations with their payload encodings, and the read-only wallet.      *)
(*                                                                         *)
(* Library calls made by sdk.ts are modelled by what they do:              *)
(*   new anchor.BN(n)            bn.js BN.prototype._initNumber            *)
(*   bn.toString()               bn.js BN.prototype.toString (base 10)     *)
(*   BigInt(string)              ECMAScript StringToBigInt                 *)
(*   buf.writeBigUInt64LE(v, o)  node:buffer writeBigU_Int64LE + checkInt  *)
(*   PublicKey.findProgramAddressSync   @solana/web3.js                    *)
(*   program.methods.x().accounts().remainingAccounts().transaction()     *)
(*                               @coral-xyz/anchor MethodsBuilder          *)
(* TLC integers are 32 bits wide, so every value that can exceed 2^31 is   *)
(* kept as a little-endian sequence of limbs: 26-bit words for a JS number *)
(* and for a BN (the width bn.js itself uses), bytes for a BigInt.         *)
(***************************************************************************)
EXTENDS Integers, Sequences, FiniteSets, Bags, TLC

VARIABLES sdk, globalProvider, curveRun, call, pdaLog, inflight

vars == <<sdk, globalProvider, curveRun, call, pdaLog, inflight>>

Null == "null"

(***************************************************************************)
(* Sequences of limbs                                                      *)
(***************************************************************************)
WordBase == 2^26

ByteBase == 2^8

RECURSIVE Strip(_)
\* a little-endian magnitude without its leading (most significant) zeros
Strip(s) == IF s = <<>> THEN <<>>
            ELSE IF s[Len(s)] = 0 THEN Strip(SubSeq(s, 1, Len(s) - 1))
            ELSE s

Zeros(n) == [i \in 1..n |-> 0]

(***************************************************************************)
(* Values of the JavaScript type `number` that an amount can take: an      *)
(* integer of any size, or a value with a fractional part.  int is the     *)
(* magnitude of the integer part (26-bit limbs, little-endian, stripped),  *)
(* frac says that a non-zero fractional part follows it.                   *)
(***************************************************************************)
RECURSIVE LimbsOf(_, _)
LimbsOf(n, base) == IF n = 0 THEN <<>> ELSE <<n % base>> \o LimbsOf(n \div base, base)

Num(n) == [neg |-> n < 0, int |-> LimbsOf(IF n < 0 THEN -n ELSE n, WordBase), frac |-> FALSE]

NumBig(limbs) == [neg |-> FALSE, int |-> limbs, frac |-> FALSE]

NumFrac(n, isNeg) == [neg |-> isNeg, int |-> LimbsOf(n, WordBase), frac |-> TRUE]

\* number < 0
NumberIsNegative(x) == x.neg /\ (x.int # <<>> \/ x.frac)

\* number < 2^(26*k), for a non-negative number
NumberBelowWords(x, k) == Len(x.int) <= k

\* number < 2^53, for a non-negative number
NumberBelow2p53(x) == \/ Len(x.int) <= 2
                      \/ Len(x.int) = 3 /\ x.int[3] < 2

\* number & 0x3ffffff: ToInt32 drops the fraction, the mask keeps bits 0..25
NumberLowWord(x) == IF x.int = <<>> THEN 0 ELSE x.int[1]

\* (number / 0x4000000) & 0x3ffffff: bits 26..51
NumberSecondWord(x) == IF Len(x.int) < 2 THEN 0 ELSE x.int[2]

(***************************************************************************)
(* bn.js: a BN is a sign flag and a non-empty little-endian sequence of    *)
(* 26-bit words.                                                           *)
(***************************************************************************)
BNOf(isNeg, limbs) == [negative |-> IF isNeg THEN 1 ELSE 0,
                       words |-> IF limbs = <<>> THEN <<0>> ELSE limbs]

BNWords(isNeg, words) == [ok |-> TRUE,
                          bn |-> [negative |-> IF isNeg THEN 1 ELSE 0, words |-> words]]

\* the constructor without its assertion: a number of 2^53 or more keeps its
\* low 52 bits and gets a third word of 1
BNInitNumberNoAssert(x) ==
    IF NumberBelowWords(x, 1)
    THEN BNWords(NumberIsNegative(x), <<NumberLowWord(x)>>)
    ELSE IF NumberBelowWords(x, 2)
    THEN BNWords(NumberIsNegative(x), <<NumberLowWord(x), NumberSecondWord(x)>>)
    ELSE BNWords(NumberIsNegative(x), <<NumberLowWord(x), NumberSecondWord(x), 1>>)

\* new anchor.BN(number): BN.prototype._initNumber.  The sign is taken first
\* and the number negated; one word below 2^26, two below 2^52, and three,
\* the third being the literal 1, below 2^53; anything larger fails the
\* assertion.  The words are not normalised: -0.5 becomes a negative zero.
BNInitNumber(x) ==
    IF NumberBelowWords(x, 1)
    THEN BNWords(NumberIsNegative(x), <<NumberLowWord(x)>>)
    ELSE IF NumberBelowWords(x, 2)
    THEN BNWords(NumberIsNegative(x), <<NumberLowWord(x), NumberSecondWord(x)>>)
    ELSE IF NumberBelow2p53(x)
    THEN BNWords(NumberIsNegative(x), <<NumberLowWord(x), NumberSecondWord(x), 1>>)
    ELSE [ok |-> FALSE, error |-> "Assertion failed"]

BNIsZero(bn) == Len(bn.words) = 1 /\ bn.words[1] = 0

RECURSIVE DivWordsBy10(_, _)
\* words (most significant word last) divided by ten, the carry coming from
\* the words above: <<quotient words, remainder>>
DivWordsBy10(words, i) ==
    IF i > Len(words) THEN <<words, 0>>
    ELSE LET upper == DivWordsBy10(words, i + 1)
             w     == upper[2] * WordBase + words[i]
         IN  <<[upper[1] EXCEPT ![i] = w \div 10], w % 10>>

DigitChar == <<"0", "1", "2", "3", "4", "5", "6", "7", "8", "9">>

RECURSIVE DecimalDigits(_)
\* the decimal digits of a stripped magnitude, most significant first
DecimalDigits(limbs) ==
    IF limbs = <<>> THEN <<>>
    ELSE LET qr == DivWordsBy10(limbs, 1)
         IN  DecimalDigits(Strip(qr[1])) \o <<DigitChar[qr[2] + 1]>>

\* bn.toString(): the digits of the magnitude, "0" for zero, and a leading
\* "-" whenever the sign flag is set, for a negative zero too
BNToString(bn) ==
    LET digits == DecimalDigits(Strip(bn.words))
        out    == IF BNIsZero(bn) THEN <<"0">> \o digits ELSE digits
    IN  IF bn.negative # 0 THEN <<"-">> \o out ELSE out

(***************************************************************************)
(* BigInt(string): an optional sign and decimal digits.  A BigInt is a     *)
(* sign and a stripped little-endian magnitude in bytes; -0 is 0.          *)
(***************************************************************************)
DigitValue(c) == CHOOSE d \in 0..9 : DigitChar[d + 1] = c

RECURSIVE MulAdd(_, _, _)
\* bytes * 10 + carry
MulAdd(bytes, i, carry) ==
    IF i > Len(bytes) THEN (IF carry = 0 THEN <<>> ELSE <<carry>>)
    ELSE LET v == bytes[i] * 10 + carry
         IN  <<v % ByteBase>> \o MulAdd(bytes, i + 1, v \div ByteBase)

RECURSIVE ParseDigits(_, _, _)
ParseDigits(str, i, acc) ==
    IF i > Len(str) THEN acc
    ELSE ParseDigits(str, i + 1, MulAdd(acc, 1, DigitValue(str[i])))

BigIntOfString(str) ==
    LET signed == str # <<>> /\ str[1] = "-"
        mag    == Strip(ParseDigits(str, IF signed THEN 2 ELSE 1, <<>>))
    IN  [neg |-> signed /\ mag # <<>>, mag |-> mag]

(***************************************************************************)
(* Buffer                                                                  *)
(***************************************************************************)
BufferAlloc(n) == Zeros(n)

WriteAt(buf, offset, bytes) ==
    [i \in 1..Len(buf) |->
        IF i > offset /\ i <= offset + Len(bytes) THEN bytes[i - offset] ELSE buf[i]]

\* buf.writeUInt32LE(value, offset), value below 2^31 here
WriteUInt32LE(buf, value, offset) ==
    WriteAt(buf, offset, [i \in 1..4 |-> (value \div (ByteBase^(i - 1))) % ByteBase])

\* buf.writeUInt8(value, offset)
WriteUInt8(buf, value, offset) == WriteAt(buf, offset, <<value % ByteBase>>)

\* the same write with the eight bytes stored high first
WriteBigUInt64BE(buf, value, offset) ==
    IF value.neg \/ Len(value.mag) > 8
    THEN [ok |-> FALSE, error |-> "ERR_OUT_OF_RANGE"]
    ELSE [ok |-> TRUE,
          buf |-> WriteAt(buf, offset,
                     [i \in 1..8 |-> IF 9 - i <= Len(value.mag) THEN value.mag[9 - i] ELSE 0])]

\* buf.writeBigUInt64LE(value, offset): checkInt throws ERR_OUT_OF_RANGE
\* unless 0 <= value <= 2^64 - 1, then the eight bytes are stored low first
WriteBigUInt64LE(buf, value, offset) ==
    IF value.neg \/ Len(value.mag) > 8
    THEN [ok |-> FALSE, error |-> "ERR_OUT_OF_RANGE"]
    ELSE [ok |-> TRUE,
          buf |-> WriteAt(buf, offset,
                     [i \in 1..8 |-> IF i <= Len(value.mag) THEN value.mag[i] ELSE 0])]

(***************************************************************************)
(* Identities.  A public key is a record; a program-derived address        *)
(* carries the seeds, the bump and the program it was derived for, so two  *)
(* derivations give the same address only from the same inputs (the hash   *)
(* is taken to be collision-free).                                         *)
(***************************************************************************)
Pk(id) == [kind |-> "key", of |-> id, bump |-> -1, program |-> ""]

NoKey == Pk("undefined")

Keys == {Pk("k1"), Pk("k2"), Pk("k3")}

TokenAccounts == {Pk("t1"), Pk("t2")}

SystemProgramId == Pk("SystemProgram")

TOKEN_PROGRAM_ID == Pk("TokenProgram")

TOKEN_2022_PROGRAM_ID == Pk("Token2022Program")

Connections == {"c1", "c2"}

\* the address field of idl/smart_account.json, which anchor.Program takes
\* as the program identifier
IdlAddress == Pk("73y8v8vVpDDStuVVTwuhUkcuaRpCpnUD5tg7hKcWYa5o")

\* the account schema of each instruction in idl/smart_account.json, in the
\* program's order; a flag the schema is not known to set is left false
IdlAccounts(method) ==
    LET smartW == [name |-> "smartAccount", writable |-> TRUE, signer |-> FALSE]
        smart  == [name |-> "smartAccount", writable |-> FALSE, signer |-> FALSE]
        owner  == [name |-> "owner", writable |-> FALSE, signer |-> TRUE]
        deleg  == [name |-> "delegate", writable |-> FALSE, signer |-> TRUE]
        system == [name |-> "systemProgram", writable |-> FALSE, signer |-> FALSE]
    IN  CASE method = "initialize" -> <<smartW, owner, system>>
          [] method \in {"addDelegate", "removeDelegate", "pause", "unpause"}
                                   -> <<smartW, owner>>
          [] method = "execute"    -> <<smart, deleg>>

(***************************************************************************)
(* Address derivation                                                      *)
(***************************************************************************)
MaxBump == 2^8 - 1

\* the loop of findProgramAddressSync runs while (nonce != 0): the bump 0 is
\* never tried
MinBump == 1

PdaAddress(seeds, bump, programId) ==
    [kind |-> "pda", of |-> seeds[2].of, bump |-> bump, program |-> programId.of]

\* whether the hash of (seeds, bump, programId, "ProgramDerivedAddress") is a
\* point of the curve: for each owner the curveRun[owner] highest bumps are
\* on the curve and every lower one is off it
IsOnCurve(seeds, bump, programId) == bump > MaxBump - curveRun[seeds[2]]

RECURSIVE FirstOffCurve(_, _, _, _)
\* the highest bump of lo..hi whose candidate is off the curve, -1 when there
\* is none; the upper half is searched first, so the bumps are tried from hi
\* downward
FirstOffCurve(seeds, programId, lo, hi) ==
    IF lo = hi
    THEN (IF IsOnCurve(seeds, lo, programId) THEN -1 ELSE lo)
    ELSE LET mid   == (lo + hi) \div 2
             upper == FirstOffCurve(seeds, programId, mid + 1, hi)
         IN  IF upper >= 0 THEN upper ELSE FirstOffCurve(seeds, programId, lo, mid)

\* a search that gives the lowest bump's candidate when every candidate is on
\* the curve
FindProgramAddressSyncLastCandidate(seeds, programId) ==
    LET bump == FirstOffCurve(seeds, programId, MinBump, MaxBump)
    IN  IF bump < 0
        THEN [ok |-> TRUE, address |-> PdaAddress(seeds, MinBump, programId), bump |-> MinBump]
        ELSE [ok |-> TRUE, address |-> PdaAddress(seeds, bump, programId), bump |-> bump]

\* PublicKey.findProgramAddressSync(seeds, programId): the bump goes from 255
\* down to 1, the first candidate off the curve is returned, and the call
\* throws when there is none
FindProgramAddressSync(seeds, programId) ==
    LET bump == FirstOffCurve(seeds, programId, MinBump, MaxBump)
    IN  IF bump < 0
        THEN [ok |-> FALSE, error |-> "Unable to find a viable program address nonce"]
        ELSE [ok |-> TRUE, address |-> PdaAddress(seeds, bump, programId), bump |-> bump]

\* a derivation from the construction identity, whatever owner is asked for
FindSmartAccountPDAOfUser(inst, owner) ==
    FindProgramAddressSync(<<"smart", inst.userPublicKey>>, inst.programId)

\* findSmartAccountPDA(owner)
FindSmartAccountPDA(inst, owner) ==
    FindProgramAddressSync(<<"smart", owner>>, inst.programId)

(***************************************************************************)
(* The instance                                                            *)
(***************************************************************************)
NoProvider == [connection |-> "none", wallet |-> NoKey]

NoSdk == [live |-> FALSE, connection |-> "none", userPublicKey |-> NoKey,
          provider |-> NoProvider, programId |-> NoKey]

\* new SmartAccountSDK(connection, userPublicKey)
NewSdk(connection, userPublicKey) ==
    [live |-> TRUE, connection |-> connection, userPublicKey |-> userPublicKey,
     provider |-> [connection |-> connection, wallet |-> userPublicKey],
     programId |-> IdlAddress]

(***************************************************************************)
(* anchor's methods builder                                                *)
(***************************************************************************)
Meta(pubkey, isSigner, isWritable) ==
    [pubkey |-> pubkey, isSigner |-> isSigner, isWritable |-> isWritable]

\* the instruction: the accounts of the schema in the schema's order, each
\* resolved by name from .accounts({...}), then the remaining accounts
Instruction(inst, method, args, accounts, remaining) ==
    LET schema == IdlAccounts(method)
    IN  [programId |-> inst.programId,
         method |-> method,
         args |-> args,
         keys |-> [i \in 1..Len(schema) |->
                      Meta(accounts[schema[i].name], schema[i].signer, schema[i].writable)]
                  \o remaining]

\* a transaction whose fee payer is filled in with the construction identity
TransactionWithFeePayer(inst, ix) ==
    [instructions |-> <<ix>>, feePayer |-> inst.userPublicKey,
     recentBlockhash |-> Null, signatures |-> <<>>]

\* .transaction(): a new Transaction holding the one instruction
Transaction(inst, ix) ==
    [instructions |-> <<ix>>, feePayer |-> NoKey,
     recentBlockhash |-> Null, signatures |-> <<>>]

Ok(tx) == [kind |-> "tx", tx |-> tx]

Rejected(error) == [kind |-> "error", error |-> error]

(***************************************************************************)
(* Amounts as a caller passes them (number | anchor.BN)                    *)
(***************************************************************************)
AmountNumber(x) == [type |-> "number", neg |-> x.neg, limbs |-> x.int, frac |-> x.frac]

AmountBN(isNeg, limbs) == [type |-> "BN", neg |-> isNeg, limbs |-> limbs, frac |-> FALSE]

\* typeof amount === 'number' ? new anchor.BN(amount) : amount
ToBN(amount) ==
    IF amount.type = "number"
    THEN BNInitNumber([neg |-> amount.neg, int |-> amount.limbs, frac |-> amount.frac])
    ELSE [ok |-> TRUE, bn |-> BNOf(amount.neg, amount.limbs)]

(***************************************************************************)
(* The owner operations                                                    *)
(***************************************************************************)
\* owner || this.userPublicKey, the construction identity taken always
OwnerKeyIgnoringArgument(inst, owner) == inst.userPublicKey

\* owner || this.userPublicKey
OwnerKey(inst, owner) == IF owner = NoKey THEN inst.userPublicKey ELSE owner

\* initialize with the address derived from the construction identity
InitializeTxDerivesFromUser(inst, owner) ==
    LET ownerKey == OwnerKey(inst, owner)
        pda      == FindSmartAccountPDA(inst, inst.userPublicKey)
        accounts == [smartAccount |-> pda.address, owner |-> ownerKey,
                     systemProgram |-> SystemProgramId]
    IN  IF ~pda.ok THEN Rejected(pda.error)
        ELSE Ok(Transaction(inst, Instruction(inst, "initialize", <<>>, accounts, <<>>)))

\* initialize(owner?)
InitializeTx(inst, owner) ==
    LET ownerKey == OwnerKey(inst, owner)
        pda      == FindSmartAccountPDA(inst, ownerKey)
        accounts == [smartAccount |-> pda.address, owner |-> ownerKey,
                     systemProgram |-> SystemProgramId]
    IN  IF ~pda.ok THEN Rejected(pda.error)
        ELSE Ok(Transaction(inst, Instruction(inst, "initialize", <<>>, accounts, <<>>)))

\* addDelegate(delegate, owner?)
AddDelegateTx(inst, delegate, owner) ==
    LET ownerKey == OwnerKey(inst, owner)
        pda      == FindSmartAccountPDA(inst, ownerKey)
        accounts == [smartAccount |-> pda.address, owner |-> ownerKey]
    IN  IF ~pda.ok THEN Rejected(pda.error)
        ELSE Ok(Transaction(inst,
                  Instruction(inst, "addDelegate", <<delegate>>, accounts, <<>>)))

\* removeDelegate(delegate, owner?)
RemoveDelegateTx(inst, delegate, owner) ==
    LET ownerKey == OwnerKey(inst, owner)
        pda      == FindSmartAccountPDA(inst, ownerKey)
        accounts == [smartAccount |-> pda.address, owner |-> ownerKey]
    IN  IF ~pda.ok THEN Rejected(pda.error)
        ELSE Ok(Transaction(inst,
                  Instruction(inst, "removeDelegate", <<delegate>>, accounts, <<>>)))

\* pause(owner?)
PauseTx(inst, owner) ==
    LET ownerKey == OwnerKey(inst, owner)
        pda      == FindSmartAccountPDA(inst, ownerKey)
        accounts == [smartAccount |-> pda.address, owner |-> ownerKey]
    IN  IF ~pda.ok THEN Rejected(pda.error)
        ELSE Ok(Transaction(inst, Instruction(inst, "pause", <<>>, accounts, <<>>)))

\* unpause(owner?)
UnpauseTx(inst, owner) ==
    LET ownerKey == OwnerKey(inst, owner)
        pda      == FindSmartAccountPDA(inst, ownerKey)
        accounts == [smartAccount |-> pda.address, owner |-> ownerKey]
    IN  IF ~pda.ok THEN Rejected(pda.error)
        ELSE Ok(Transaction(inst, Instruction(inst, "unpause", <<>>, accounts, <<>>)))

(***************************************************************************)
(* The execute operations                                                  *)
(***************************************************************************)
\* the native-transfer payload: Buffer.alloc(12), the selector 2 as a u32,
\* the amount as a u64 at offset 4
EncodeSolTransfer(lamports) ==
    LET instructionIndex == 2
        lamportsAmount   == ToBN(lamports)
        instructionData  == WriteUInt32LE(BufferAlloc(12), instructionIndex, 0)
    IN  IF ~lamportsAmount.ok THEN lamportsAmount
        ELSE WriteBigUInt64LE(instructionData,
                              BigIntOfString(BNToString(lamportsAmount.bn)), 4)

\* the token-transfer payload laid out like the native one: twelve bytes and
\* a four-byte selector
EncodeTokenTransferWideSelector(amount) ==
    LET transferAmount  == ToBN(amount)
        instructionData == WriteUInt32LE(BufferAlloc(12), 3, 0)
    IN  IF ~transferAmount.ok THEN transferAmount
        ELSE WriteBigUInt64LE(instructionData,
                              BigIntOfString(BNToString(transferAmount.bn)), 4)

\* the token-transfer payload: Buffer.alloc(9), the selector 3 as a u8, the
\* amount as a u64 at offset 1
EncodeTokenTransfer(amount) ==
    LET transferAmount  == ToBN(amount)
        instructionData == WriteUInt8(BufferAlloc(9), 3, 0)
    IN  IF ~transferAmount.ok THEN transferAmount
        ELSE WriteBigUInt64LE(instructionData,
                              BigIntOfString(BNToString(transferAmount.bn)), 1)

\* the extra accounts of a native transfer with the recipient put first
SolTransferAccountsRecipientFirst(smartAccountPDA, recipient) ==
    << Meta(recipient, FALSE, TRUE),
       Meta(smartAccountPDA, FALSE, TRUE),
       Meta(SystemProgramId, FALSE, FALSE) >>

SolTransferAccounts(smartAccountPDA, recipient) ==
    << Meta(SystemProgramId, FALSE, FALSE),
       Meta(smartAccountPDA, FALSE, TRUE),
       Meta(recipient, FALSE, TRUE) >>

ExecuteSolTransferTx(inst, smartAccountOwner, delegate, recipient, lamports) ==
    LET pda      == FindSmartAccountPDA(inst, smartAccountOwner)
        data     == EncodeSolTransfer(lamports)
        accounts == [smartAccount |-> pda.address, delegate |-> delegate]
    IN  IF ~pda.ok THEN Rejected(pda.error)
        ELSE IF ~data.ok THEN Rejected(data.error)
        ELSE Ok(Transaction(inst,
                  Instruction(inst, "execute", <<data.buf>>, accounts,
                              SolTransferAccounts(pda.address, recipient))))

\* the token program chosen only by an explicit true, compared as a string
TokenProgramIdStandardOnly(useToken2022) == TOKEN_PROGRAM_ID

\* useToken2022 ? TOKEN_2022_PROGRAM_ID : TOKEN_PROGRAM_ID, the flag
\* defaulting to false when it is omitted
TokenProgramId(useToken2022) ==
    LET flag == IF useToken2022 = "undefined" THEN "false" ELSE useToken2022
    IN  IF flag = "true" THEN TOKEN_2022_PROGRAM_ID ELSE TOKEN_PROGRAM_ID

TokenTransferAccounts(tokenProgramId, fromTokenAccount, toTokenAccount, smartAccountPDA) ==
    << Meta(tokenProgramId, FALSE, FALSE),
       Meta(fromTokenAccount, FALSE, TRUE),
       Meta(toTokenAccount, FALSE, TRUE),
       Meta(smartAccountPDA, FALSE, FALSE) >>

ExecuteTokenTransferTx(inst, smartAccountOwner, delegate, fromTokenAccount, toTokenAccount, amount, useToken2022) ==
    LET pda      == FindSmartAccountPDA(inst, smartAccountOwner)
        data     == EncodeTokenTransfer(amount)
        accounts == [smartAccount |-> pda.address, delegate |-> delegate]
    IN  IF ~pda.ok THEN Rejected(pda.error)
        ELSE IF ~data.ok THEN Rejected(data.error)
        ELSE Ok(Transaction(inst,
                  Instruction(inst, "execute", <<data.buf>>, accounts,
                              TokenTransferAccounts(TokenProgramId(useToken2022),
                                  fromTokenAccount, toTokenAccount, pda.address))))

\* the extra accounts of a custom instruction with repeated accounts dropped
CustomAccountsDeduplicated(targetProgram, remainingAccounts) ==
    <<Meta(targetProgram, FALSE, FALSE)>> \o
    SelectSeq(remainingAccounts, LAMBDA m : m.pubkey # targetProgram)

\* the caller's array after the call: the spread copies it
CallerAccountsAfter(targetProgram, remainingAccounts) == remainingAccounts

\* [{ pubkey: targetProgram, ... }, ...remainingAccounts]
CustomAccounts(targetProgram, remainingAccounts) ==
    <<Meta(targetProgram, FALSE, FALSE)>> \o remainingAccounts

ExecuteCustomInstructionTx(inst, smartAccountOwner, delegate, targetProgram, instructionData, remainingAccounts) ==
    LET pda      == FindSmartAccountPDA(inst, smartAccountOwner)
        accounts == [smartAccount |-> pda.address, delegate |-> delegate]
    IN  IF ~pda.ok THEN Rejected(pda.error)
        ELSE Ok(Transaction(inst,
                  Instruction(inst, "execute", <<instructionData>>, accounts,
                              CustomAccounts(targetProgram, remainingAccounts))))

(***************************************************************************)
(* The state machine.  sdk is the instance the caller holds, globalProvider*)
(* anchor's process-wide provider, curveRun the hash (see IsOnCurve), call *)
(* the last call with its arguments and its outcome, and pdaLog what       *)
(* findSmartAccountPDA has returned so far for each owner, with the number *)
(* of calls, and inflight the bag of the calls of composer methods that    *)
(* have reached their await and whose promise has not settled yet.         *)
(***************************************************************************)
MaxOnCurveRun == 1

\* findSmartAccountPDA is followed for this many calls per owner
MaxPdaCalls == 2

\* at most this many calls are in flight at a time
MaxInFlight == 2

\* the number of leading on-curve bumps an owner may have: none, a few, all
\* but the bumps 1 and 0, all but the bump 0, or all 256
RunChoice(i) == IF i <= MaxOnCurveRun THEN i ELSE MaxBump - 2 + (i - MaxOnCurveRun)

KeyIndex(k) == CASE k = Pk("k1") -> 0 [] k = Pk("k2") -> 1 [] k = Pk("k3") -> 2

\* the hashes considered: each gives the owners different runs, and over the
\* tables every owner gets every run
CurveTables ==
    { [k \in Keys |-> RunChoice((KeyIndex(k) + r) % (MaxOnCurveRun + 4))] :
        r \in 0..(MaxOnCurveRun + 3) }

NoArgs == [none |-> TRUE]

NoCall == [op |-> "none", args |-> NoArgs, result |-> [kind |-> "none"], network |-> FALSE]

Init ==
    /\ sdk = NoSdk
    /\ globalProvider = NoProvider
    /\ curveRun \in CurveTables
    /\ call = NoCall
    /\ pdaLog = [k \in Keys |-> [calls |-> 0, results |-> {}]]
    /\ inflight = EmptyBag

\* constructor(connection, userPublicKey), with anchor.setProvider
Construct(connection, userPublicKey) ==
    /\ sdk' = NewSdk(connection, userPublicKey)
    /\ globalProvider' = sdk'.provider
    /\ call' = [op |-> "constructor",
                args |-> [connection |-> connection, userPublicKey |-> userPublicKey],
                result |-> [kind |-> "instance"], network |-> FALSE]
    /\ UNCHANGED <<curveRun, pdaLog, inflight>>

Composed(op, args, result) ==
    /\ sdk.live
    /\ call' = [op |-> op, args |-> args, result |-> result, network |-> FALSE]
    /\ UNCHANGED <<sdk, globalProvider, curveRun, pdaLog, inflight>>

FindPDA(owner) ==
    LET pda == FindSmartAccountPDA(sdk, owner)
        result == IF pda.ok THEN [kind |-> "pda", address |-> pda.address, bump |-> pda.bump]
                  ELSE Rejected(pda.error)
    IN  /\ sdk.live
        /\ pdaLog[owner].calls < MaxPdaCalls
        /\ call' = [op |-> "findSmartAccountPDA", args |-> [owner |-> owner],
                    result |-> result, network |-> FALSE]
        /\ pdaLog' = [pdaLog EXCEPT ![owner] =
                         [calls |-> @.calls + 1, results |-> @.results \cup {result}]]
        /\ UNCHANGED <<sdk, globalProvider, curveRun, inflight>>

\* getSmartAccountState(address): one read over the connection, which gives
\* the record stored at the address or fails
GetSmartAccountState(address, fetched) ==
    /\ sdk.live
    /\ call' = [op |-> "getSmartAccountState", args |-> [address |-> address],
                result |-> fetched, network |-> TRUE]
    /\ UNCHANGED <<sdk, globalProvider, curveRun, pdaLog, inflight>>

Fetched == { [kind |-> "state", owner |-> Pk("k1"), delegates |-> <<>>, paused |-> FALSE],
             Rejected("Account does not exist or has no data") }

\* provider.wallet.signTransaction / signAllTransactions of the dummy wallet
SignTransaction ==
    /\ sdk.live
    /\ call' = [op |-> "signTransaction", args |-> NoArgs,
                result |-> Rejected("SDK is in read-only mode and cannot sign transactions."),
                network |-> FALSE]
    /\ UNCHANGED <<sdk, globalProvider, curveRun, pdaLog, inflight>>

SignAllTransactions ==
    /\ sdk.live
    /\ call' = [op |-> "signAllTransactions", args |-> NoArgs,
                result |-> Rejected("SDK is in read-only mode and cannot sign transactions."),
                network |-> FALSE]
    /\ UNCHANGED <<sdk, globalProvider, curveRun, pdaLog, inflight>>

Initialize(owner) ==
    Composed("initialize", [owner |-> owner], InitializeTx(sdk, owner))

AddDelegate(delegate, owner) ==
    Composed("addDelegate", [delegate |-> delegate, owner |-> owner],
             AddDelegateTx(sdk, delegate, owner))

RemoveDelegate(delegate, owner) ==
    Composed("removeDelegate", [delegate |-> delegate, owner |-> owner],
             RemoveDelegateTx(sdk, delegate, owner))

Pause(owner) == Composed("pause", [owner |-> owner], PauseTx(sdk, owner))

Unpause(owner) == Composed("unpause", [owner |-> owner], UnpauseTx(sdk, owner))

ExecuteSolTransfer(smartAccountOwner, delegate, recipient, lamports) ==
    Composed("executeSolTransfer",
             [smartAccountOwner |-> smartAccountOwner, delegate |-> delegate,
              recipient |-> recipient, amount |-> lamports],
             ExecuteSolTransferTx(sdk, smartAccountOwner, delegate, recipient, lamports))

ExecuteTokenTransfer(smartAccountOwner, delegate, fromTokenAccount, toTokenAccount, amount, useToken2022) ==
    Composed("executeTokenTransfer",
             [smartAccountOwner |-> smartAccountOwner, delegate |-> delegate,
              fromTokenAccount |-> fromTokenAccount, toTokenAccount |-> toTokenAccount,
              amount |-> amount, useToken2022 |-> useToken2022],
             ExecuteTokenTransferTx(sdk, smartAccountOwner, delegate, fromTokenAccount,
                                    toTokenAccount, amount, useToken2022))

ExecuteCustomInstruction(smartAccountOwner, delegate, targetProgram, instructionData, remainingAccounts) ==
    Composed("executeCustomInstruction",
             [smartAccountOwner |-> smartAccountOwner, delegate |-> delegate,
              targetProgram |-> targetProgram, instructionData |-> instructionData,
              remainingAccounts |-> remainingAccounts,
              remainingAccountsAfter |-> CallerAccountsAfter(targetProgram, remainingAccounts)],
             ExecuteCustomInstructionTx(sdk, smartAccountOwner, delegate, targetProgram,
                                        instructionData, remainingAccounts))

(***************************************************************************)
(* Calls in flight.  A composer method is an async function: it runs up to *)
(* `await ... .transaction()` when it is called, and its promise settles   *)
(* in a later turn of the event loop; other calls may start and settle in  *)
(* between.  The method reads this.userPublicKey and this.program while it *)
(* runs, the builder it hands to anchor holds the method's arguments, the  *)
(* accounts and the program's identifier, and nothing of the instance is   *)
(* read after the await.                                                   *)
(***************************************************************************)
\* what a composer method gives on an instance, by the method's name
ComposeTx(inst, op, args) ==
    CASE op = "initialize"     -> InitializeTx(inst, args.owner)
      [] op = "addDelegate"    -> AddDelegateTx(inst, args.delegate, args.owner)
      [] op = "removeDelegate" -> RemoveDelegateTx(inst, args.delegate, args.owner)
      [] op = "pause"          -> PauseTx(inst, args.owner)
      [] op = "unpause"        -> UnpauseTx(inst, args.owner)
      [] op = "executeSolTransfer" ->
            ExecuteSolTransferTx(inst, args.smartAccountOwner, args.delegate,
                                 args.recipient, args.amount)
      [] op = "executeTokenTransfer" ->
            ExecuteTokenTransferTx(inst, args.smartAccountOwner, args.delegate,
                                   args.fromTokenAccount, args.toTokenAccount,
                                   args.amount, args.useToken2022)
      [] op = "executeCustomInstruction" ->
            ExecuteCustomInstructionTx(inst, args.smartAccountOwner, args.delegate,
                                       args.targetProgram, args.instructionData,
                                       args.remainingAccounts)

\* an instance whose methods remember the owner they were last called for
InstanceAfterKeepingOwner(inst, op, args) ==
    IF "owner" \in DOMAIN args /\ args.owner # NoKey
    THEN [inst EXCEPT !.userPublicKey = args.owner]
    ELSE inst

\* the instance after a method has run: no method assigns to this.connection,
\* this.provider, this.program or this.userPublicKey
InstanceAfter(inst, op, args) == inst

\* the call of a composer method, up to its await
Begin(op, args) ==
    /\ sdk.live
    /\ BagCardinality(inflight) < MaxInFlight
    /\ inflight' = inflight (+) SetToBag({[op |-> op, args |-> args,
                                            outcome |-> ComposeTx(sdk, op, args)]})
    /\ sdk' = InstanceAfter(sdk, op, args)
    /\ UNCHANGED <<globalProvider, curveRun, call, pdaLog>>

\* the promise of a call in flight settles: the caller gets the transaction
\* or the error
Settle(pending) ==
    /\ BagIn(pending, inflight)
    /\ inflight' = inflight (-) SetToBag({pending})
    /\ call' = [op |-> pending.op, args |-> pending.args,
                result |-> pending.outcome, network |-> FALSE]
    /\ UNCHANGED <<sdk, globalProvider, curveRun, pdaLog>>

(***************************************************************************)
(* Inputs                                                                  *)
(***************************************************************************)
OptionalOwners == Keys \cup {NoKey}

Flags == {"true", "false", "undefined"}

W == WordBase - 1

\* as numbers: 0, 1, 255, 256, 5 000 000, 2^26 - 1, 2^26, 10^9, 2^31 - 1,
\* 2^52 - 1, 2^52, 2^53 - 1, 2^53, 2^53 + 2, 2^63, 2^64 - 2048, 2^64, 2^65,
\* -1, -5 000 000, -2^53, and 0.5, 1.5, -0.5, -1.5
NumberAmounts ==
    { AmountNumber(Num(n)) :
        n \in {0, 1, 255, 256, 5000000, W, W + 1, 1000000000, 2147483647,
               -1, -5000000} }
    \cup
    { AmountNumber(NumBig(l)) :
        l \in { <<W, W>>, <<0, 0, 1>>, <<W, W, 1>>, <<0, 0, 2>>, <<2, 0, 2>>,
                <<0, 0, 2^11>>, <<W + 1 - 2^11, W, 2^12 - 1>>, <<0, 0, 2^12>>,
                <<0, 0, 2^13>> } }
    \cup
    { AmountNumber([neg |-> TRUE, int |-> <<0, 0, 2>>, frac |-> FALSE]),
      AmountNumber(NumFrac(0, FALSE)), AmountNumber(NumFrac(1, FALSE)),
      AmountNumber(NumFrac(0, TRUE)), AmountNumber(NumFrac(1, TRUE)) }

\* as BNs: 0, 1, 5 000 000, 10^9, 2^32, 2^53, 2^53 + 1, 2^63, 2^64 - 1, 2^64,
\* 2^64 + 1, 2^78, -1, -2^64
BNAmounts ==
    { AmountBN(FALSE, l) :
        l \in { <<>>, <<1>>, LimbsOf(5000000, WordBase), LimbsOf(1000000000, WordBase),
                <<0, 64>>, <<0, 0, 2>>, <<1, 0, 2>>, <<0, 0, 2^11>>, <<W, W, 2^12 - 1>>,
                <<0, 0, 2^12>>, <<1, 0, 2^12>>, <<0, 0, 0, 1>> } }
    \cup { AmountBN(TRUE, <<1>>), AmountBN(TRUE, <<0, 0, 2^12>>) }

AllAmounts == NumberAmounts \cup BNAmounts

\* 10^9 and -1 as numbers, 5 000 000 and 2^64 as BNs
FewAmounts ==
    { AmountNumber(Num(1000000000)), AmountNumber(Num(-1)),
      AmountBN(FALSE, LimbsOf(5000000, WordBase)), AmountBN(FALSE, <<0, 0, 2^12>>) }

\* 1, 10^9 and -1 as numbers, 5 000 000 as a BN
OneLamport == AmountNumber(Num(1))

PlainAmounts == { AmountNumber(Num(1000000000)), AmountNumber(Num(-1)) }

TokenAmount == AmountBN(FALSE, LimbsOf(5000000, WordBase))

Payloads == { <<>>, <<7>>, <<1, 0, 255>> }

OneAccount == <<Meta(Pk("k1"), FALSE, TRUE)>>

Targets == { SystemProgramId, Pk("k3") }

AccountLists ==
    { <<>>,
      <<Meta(Pk("k1"), TRUE, FALSE)>>,
      <<Meta(Pk("k2"), FALSE, TRUE), Meta(Pk("k1"), TRUE, TRUE)>>,
      <<Meta(Pk("k3"), FALSE, FALSE), Meta(Pk("k3"), FALSE, FALSE)>>,
      <<Meta(SystemProgramId, FALSE, FALSE), Meta(Pk("k1"), FALSE, TRUE)>> }

(***************************************************************************)
(* Every operation, on few inputs                                          *)
(***************************************************************************)
Next ==
    \/ \E c \in Connections, k \in {Pk("k1"), Pk("k2")} : Construct(c, k)
    \/ \E f \in Fetched : GetSmartAccountState(Pk("k1"), f)
    \/ SignTransaction
    \/ SignAllTransactions
    \/ \E o \in OptionalOwners : Initialize(o)
    \/ \E o \in OptionalOwners : AddDelegate(Pk("k2"), o)
    \/ \E o \in OptionalOwners : RemoveDelegate(Pk("k2"), o)
    \/ \E o \in OptionalOwners : Pause(o)
    \/ \E o \in OptionalOwners : Unpause(o)
    \/ \E o \in Keys, a \in FewAmounts : ExecuteSolTransfer(o, Pk("k2"), Pk("k3"), a)
    \/ \E o \in Keys, a \in FewAmounts, u \in {"true", "undefined"} :
          ExecuteTokenTransfer(o, Pk("k2"), Pk("t1"), Pk("t2"), a, u)
    \/ \E o \in Keys, r \in AccountLists :
          ExecuteCustomInstruction(o, Pk("k2"), Pk("k3"), <<7>>, r)

Spec == Init /\ [][Next]_vars

(***************************************************************************)
(* The owner operations on every owner and delegate                        *)
(***************************************************************************)
NextOwner ==
    \/ \E c \in Connections, k \in Keys : Construct(c, k)
    \/ \E o \in OptionalOwners : Initialize(o)
    \/ \E d \in Keys, o \in OptionalOwners : AddDelegate(d, o)
    \/ \E d \in Keys, o \in OptionalOwners : RemoveDelegate(d, o)
    \/ \E o \in OptionalOwners : Pause(o)
    \/ \E o \in OptionalOwners : Unpause(o)

SpecOwner == Init /\ [][NextOwner]_vars

(***************************************************************************)
(* The execute operations on every combination of identities               *)
(***************************************************************************)
NextExec ==
    \/ \E k \in {Pk("k1"), Pk("k2")} : Construct("c1", k)
    \/ \E o \in Keys, d \in Keys, r \in {Pk("k1"), Pk("k3")}, a \in PlainAmounts :
          ExecuteSolTransfer(o, d, r, a)
    \/ \E o \in Keys, d \in {Pk("k1"), Pk("k2")}, t \in TokenAccounts, u \in Flags :
          ExecuteTokenTransfer(o, d, Pk("t1"), t, TokenAmount, u)
    \/ \E o \in Keys, t \in Targets, p \in Payloads, r \in AccountLists :
          ExecuteCustomInstruction(o, Pk("k2"), t, p, r)

SpecExec == Init /\ [][NextExec]_vars

(***************************************************************************)
(* The two transfers on every amount                                       *)
(***************************************************************************)
NextEnc ==
    \/ Construct("c1", Pk("k1"))
    \/ \E a \in AllAmounts : ExecuteSolTransfer(Pk("k1"), Pk("k2"), Pk("k3"), a)
    \/ \E a \in AllAmounts, u \in Flags :
          ExecuteTokenTransfer(Pk("k1"), Pk("k2"), Pk("t1"), Pk("t2"), a, u)

SpecEnc == Init /\ [][NextEnc]_vars

(***************************************************************************)
(* The address derivation, among other operations, on one instance after   *)
(* another                                                                 *)
(***************************************************************************)
NextPda ==
    \/ \E c \in Connections, k \in {Pk("k1"), Pk("k2")} : Construct(c, k)
    \/ \E o \in Keys : FindPDA(o)
    \/ \E o \in OptionalOwners : Initialize(o)
    \/ \E f \in Fetched : GetSmartAccountState(Pk("k1"), f)
    \/ ExecuteSolTransfer(Pk("k3"), Pk("k2"), Pk("k1"), OneLamport)

SpecPda == Init /\ [][NextPda]_vars

(***************************************************************************)
(* The address derivation and every method that derives an address, for an *)
(* owner whose candidates are all on the curve too                         *)
(***************************************************************************)
NextDerive ==
    \/ \E k \in {Pk("k1"), Pk("k2")} : Construct("c1", k)
    \/ FindPDA(Pk("k1"))
    \/ \E o \in {Pk("k1"), NoKey} : Initialize(o)
    \/ \E o \in {Pk("k1"), NoKey} : AddDelegate(Pk("k3"), o)
    \/ \E o \in {Pk("k1"), NoKey} : RemoveDelegate(Pk("k3"), o)
    \/ \E o \in {Pk("k1"), NoKey} : Pause(o)
    \/ \E o \in {Pk("k1"), NoKey} : Unpause(o)
    \/ \E o \in {Pk("k1"), Pk("k2")} :
          ExecuteSolTransfer(o, Pk("k3"), Pk("k3"), OneLamport)
    \/ \E o \in {Pk("k1"), Pk("k2")} :
          ExecuteTokenTransfer(o, Pk("k3"), Pk("t1"), Pk("t2"), OneLamport, "false")
    \/ \E o \in {Pk("k1"), Pk("k2")} :
          ExecuteCustomInstruction(o, Pk("k3"), SystemProgramId, <<7>>, OneAccount)

SpecDerive == Init /\ [][NextDerive]_vars

(***************************************************************************)
(* Calls on one instance that overlap: each starts while others are in     *)
(* flight and they settle in any order                                     *)
(***************************************************************************)
ConcurrentCalls ==
    { [op |-> "initialize", args |-> [owner |-> NoKey]],
      [op |-> "addDelegate", args |-> [delegate |-> Pk("k3"), owner |-> Pk("k2")]],
      [op |-> "pause", args |-> [owner |-> Pk("k1")]],
      [op |-> "executeSolTransfer",
       args |-> [smartAccountOwner |-> Pk("k1"), delegate |-> Pk("k2"),
                 recipient |-> Pk("k3"), amount |-> AmountNumber(Num(1000000000))]],
      [op |-> "executeTokenTransfer",
       args |-> [smartAccountOwner |-> Pk("k2"), delegate |-> Pk("k1"),
                 fromTokenAccount |-> Pk("t1"), toTokenAccount |-> Pk("t2"),
                 amount |-> AmountNumber(Num(-1)), useToken2022 |-> "true"]],
      [op |-> "executeCustomInstruction",
       args |-> [smartAccountOwner |-> Pk("k1"), delegate |-> Pk("k2"),
                 targetProgram |-> SystemProgramId, instructionData |-> <<7>>,
                 remainingAccounts |-> OneAccount]] }

NextConc ==
    \/ \E k \in {Pk("k1"), Pk("k2")} : ~sdk.live /\ Construct("c1", k)
    \/ \E c \in ConcurrentCalls : Begin(c.op, c.args)
    \/ \E p \in BagToSet(inflight) : Settle(p)
    \/ \E f \in Fetched : GetSmartAccountState(Pk("k1"), f)

SpecConc == Init /\ [][NextConc]_vars

(***************************************************************************)
(* What the claims speak of                                                *)
(***************************************************************************)
IsTx == call.result.kind = "tx"

TheInstruction == call.result.tx.instructions[1]

ThePayload == TheInstruction.args[1]

\* the magnitude as a mathematical integer is below 2^64 (below 2^53)
MagnitudeBelow2p64(limbs) ==
    LET m == Strip(limbs) IN Len(m) <= 2 \/ (Len(m) = 3 /\ m[3] < 2^12)

MagnitudeBelow2p53(limbs) ==
    LET m == Strip(limbs) IN Len(m) <= 2 \/ (Len(m) = 3 /\ m[3] < 2)

IsNegativeAmount(a) == a.neg /\ (Strip(a.limbs) # <<>> \/ a.frac)

\* an integer of [0, 2^64 - 1]
AmountInU64(a) == ~a.frac /\ ~IsNegativeAmount(a) /\ MagnitudeBelow2p64(a.limbs)

\* negative, or above 2^64 - 1
AmountOutsideU64(a) == IsNegativeAmount(a) \/ ~MagnitudeBelow2p64(a.limbs)

\* bit k of a magnitude held in 26-bit limbs
BitOf(limbs, k) ==
    LET j == k \div 26 + 1
    IN  IF j > Len(limbs) THEN 0 ELSE (limbs[j] \div 2^(k % 26)) % 2

\* the eight bytes of the unsigned 64-bit little-endian form, read off the bits
U64LE(limbs) ==
    [i \in 1..8 |->
        LET k == 8 * (i - 1)
        IN  BitOf(limbs, k) + 2 * BitOf(limbs, k + 1) + 4 * BitOf(limbs, k + 2)
            + 8 * BitOf(limbs, k + 3) + 16 * BitOf(limbs, k + 4)
            + 32 * BitOf(limbs, k + 5) + 64 * BitOf(limbs, k + 6)
            + 128 * BitOf(limbs, k + 7)]

\* the derivation for this owner finds a bump
Derivable(owner) == curveRun[owner] <= MaxBump - MinBump

\* the address the derivation must give: the highest bump off the curve
ExpectedPda(owner) ==
    [kind |-> "pda", of |-> owner.of, bump |-> MaxBump - curveRun[owner],
     program |-> IdlAddress.of]

IsTransfer == call.op \in {"executeSolTransfer", "executeTokenTransfer"}

\* C1 as stated: for every amount of [0, 2^64 - 1], a plain number or a
\* big-number value, executeSolTransfer composes an instruction whose payload
\* is the twelve bytes 02 00 00 00 and the amount as a little-endian u64.
C1_AsStated ==
    (call.op = "executeSolTransfer" /\ AmountInU64(call.args.amount)
        /\ Derivable(call.args.smartAccountOwner))
    => /\ IsTx
       /\ ThePayload = <<2, 0, 0, 0>> \o U64LE(call.args.amount.limbs)

\* C1, amended: for every integer amount of [0, 2^64 - 1] passed as a
\* big-number value, and every one of [0, 2^53 - 1] passed as a plain number,
\* executeSolTransfer composes an instruction whose payload is exactly twelve
\* bytes, 02 00 00 00 and then the amount as a little-endian u64 (10^9 gives
\* 02 00 00 00 00 CA 9A 3B 00 00 00 00, 0 gives zero amount bytes); a plain
\* number of [2^53, 2^64 - 1] is rejected with an error and nothing is composed.
C1_SolPayload ==
    (call.op = "executeSolTransfer" /\ AmountInU64(call.args.amount)
        /\ Derivable(call.args.smartAccountOwner))
    => LET a == call.args.amount
       IN  IF a.type = "BN" \/ MagnitudeBelow2p53(a.limbs)
           THEN /\ IsTx
                /\ Len(ThePayload) = 12
                /\ SubSeq(ThePayload, 1, 4) = <<2, 0, 0, 0>>
                /\ SubSeq(ThePayload, 5, 12) = U64LE(a.limbs)
                /\ Strip(a.limbs) = LimbsOf(1000000000, WordBase)
                      => ThePayload = <<2, 0, 0, 0, 0, 202, 154, 59, 0, 0, 0, 0>>
                /\ Strip(a.limbs) = <<>> => SubSeq(ThePayload, 5, 12) = Zeros(8)
           ELSE call.result.kind = "error"

\* the largest amount, 2^64 - 1 as a big-number value, has been encoded
C1_Witness ==
    /\ call.op = "executeSolTransfer"
    /\ call.args.amount = AmountBN(FALSE, <<W, W, 2^12 - 1>>)
    /\ IsTx
    /\ SubSeq(ThePayload, 5, 12) = <<255, 255, 255, 255, 255, 255, 255, 255>>

\* C2 as stated: for every amount of [0, 2^64 - 1], a plain number or a
\* big-number value, executeTokenTransfer composes an instruction whose
\* payload is the nine bytes 03 and the amount as a little-endian u64.
C2_AsStated ==
    (call.op = "executeTokenTransfer" /\ AmountInU64(call.args.amount)
        /\ Derivable(call.args.smartAccountOwner))
    => /\ IsTx
       /\ ThePayload = <<3>> \o U64LE(call.args.amount.limbs)

\* C2, amended: for every integer amount of [0, 2^64 - 1] passed as a
\* big-number value, and every one of [0, 2^53 - 1] passed as a plain number,
\* executeTokenTransfer composes an instruction whose payload is exactly nine
\* bytes, 03 and then the amount as a little-endian u64 (5 000 000 gives
\* 03 40 4B 4C 00 00 00 00 00), whatever the token-program variant; a plain
\* number of [2^53, 2^64 - 1] is rejected with an error and nothing is composed.
C2_TokenPayload ==
    (call.op = "executeTokenTransfer" /\ AmountInU64(call.args.amount)
        /\ Derivable(call.args.smartAccountOwner))
    => LET a == call.args.amount
       IN  IF a.type = "BN" \/ MagnitudeBelow2p53(a.limbs)
           THEN /\ IsTx
                /\ Len(ThePayload) = 9
                /\ ThePayload[1] = 3
                /\ SubSeq(ThePayload, 2, 9) = U64LE(a.limbs)
                /\ Strip(a.limbs) = LimbsOf(5000000, WordBase)
                      => ThePayload = <<3, 64, 75, 76, 0, 0, 0, 0, 0>>
           ELSE call.result.kind = "error"

\* 5 000 000 has been encoded for the Token-2022 variant
C2_Witness ==
    /\ call.op = "executeTokenTransfer"
    /\ call.args.amount = AmountNumber(Num(5000000))
    /\ call.args.useToken2022 = "true"
    /\ IsTx
    /\ ThePayload = <<3, 64, 75, 76, 0, 0, 0, 0, 0>>

\* C3: in executeSolTransfer and executeTokenTransfer an amount outside
\* [0, 2^64 - 1], negative or too large, is rejected with an error before any
\* network interaction: no transaction is returned, so no payload with a
\* truncated, wrapped or clamped amount exists.
C3_OutOfRangeRejected ==
    (IsTransfer /\ AmountOutsideU64(call.args.amount))
    => (call.result.kind = "error" /\ ~call.network)

OwnerOps == {"initialize", "addDelegate", "removeDelegate", "pause", "unpause"}

ComposerOps == OwnerOps \cup
               {"executeSolTransfer", "executeTokenTransfer", "executeCustomInstruction"}

\* the owner the operation acts for
EffectiveOwner == IF call.args.owner = NoKey THEN sdk.userPublicKey ELSE call.args.owner

\* C4: every owner operation returns a transaction with exactly one
\* instruction whose accounts are, in order, [smart account (writable), owner
\* (signer), system program (readonly)] for initialize and [smart account
\* (writable), owner (signer)] for addDelegate, removeDelegate, pause and
\* unpause; the smart account is the address derived from the owner in the
\* signer slot, and addDelegate and removeDelegate carry the delegate as their
\* only argument.
C4_OwnerAccounts ==
    (call.op \in OwnerOps /\ Derivable(EffectiveOwner))
    => /\ IsTx
       /\ Len(call.result.tx.instructions) = 1
       /\ TheInstruction.method = call.op
       /\ LET keys == TheInstruction.keys
          IN  /\ Len(keys) = IF call.op = "initialize" THEN 3 ELSE 2
              /\ keys[1].pubkey = ExpectedPda(keys[2].pubkey)
              /\ keys[1].isWritable
              /\ keys[2].pubkey = EffectiveOwner
              /\ keys[2].isSigner
              /\ call.op = "initialize" =>
                    keys[3] = Meta(SystemProgramId, FALSE, FALSE)
       /\ TheInstruction.args =
             IF call.op \in {"addDelegate", "removeDelegate"}
             THEN <<call.args.delegate>> ELSE <<>>

\* initialize has been composed for an owner other than the construction
\* identity
C4_Witness ==
    /\ call.op = "initialize"
    /\ call.args.owner \in Keys \ {sdk.userPublicKey}
    /\ IsTx
    /\ Len(TheInstruction.keys) = 3

\* C5: the instruction of executeSolTransfer has the core pair [smart
\* account, delegate (signer)] and then exactly [system program (readonly),
\* smart account (writable), recipient (writable)], none a signer, the smart
\* account being derived from the smartAccountOwner argument and not from the
\* delegate or the construction identity.
C5_SolAccounts ==
    (call.op = "executeSolTransfer" /\ IsTx)
    => LET keys == TheInstruction.keys
           pda  == ExpectedPda(call.args.smartAccountOwner)
       IN  /\ Len(call.result.tx.instructions) = 1
           /\ Len(keys) = 5
           /\ keys[1].pubkey = pda
           /\ keys[2].pubkey = call.args.delegate /\ keys[2].isSigner
           /\ SubSeq(keys, 3, 5) = << Meta(SystemProgramId, FALSE, FALSE),
                                      Meta(pda, FALSE, TRUE),
                                      Meta(call.args.recipient, FALSE, TRUE) >>

\* a transfer composed for an owner that is neither the delegate nor the
\* recipient nor the construction identity
C5_Witness ==
    /\ call.op = "executeSolTransfer"
    /\ IsTx
    /\ call.args.smartAccountOwner \notin
          {call.args.delegate, call.args.recipient, sdk.userPublicKey}
    /\ call.args.delegate # sdk.userPublicKey

\* C6: the instruction of executeTokenTransfer has the core pair [smart
\* account, delegate (signer)] and then exactly [token program (readonly),
\* from (writable), to (writable), smart account (readonly)], none a signer;
\* the token program is Token-2022 exactly when the variant flag is true and
\* the standard token program otherwise, also when the flag is omitted.
C6_TokenAccounts ==
    (call.op = "executeTokenTransfer" /\ IsTx)
    => LET keys == TheInstruction.keys
           pda  == ExpectedPda(call.args.smartAccountOwner)
           prog == IF call.args.useToken2022 = "true"
                   THEN TOKEN_2022_PROGRAM_ID ELSE TOKEN_PROGRAM_ID
       IN  /\ Len(call.result.tx.instructions) = 1
           /\ Len(keys) = 6
           /\ keys[1].pubkey = pda
           /\ keys[2].pubkey = call.args.delegate /\ keys[2].isSigner
           /\ SubSeq(keys, 3, 6) = << Meta(prog, FALSE, FALSE),
                                      Meta(call.args.fromTokenAccount, FALSE, TRUE),
                                      Meta(call.args.toTokenAccount, FALSE, TRUE),
                                      Meta(pda, FALSE, FALSE) >>

\* a token transfer composed with the variant flag true
C6_Witness ==
    /\ call.op = "executeTokenTransfer"
    /\ IsTx
    /\ call.args.useToken2022 = "true"
    /\ TheInstruction.keys[3].pubkey = TOKEN_2022_PROGRAM_ID

\* C7: executeCustomInstruction forwards the caller's payload verbatim, also
\* an empty one, and composes the extra accounts as [targetProgram (readonly,
\* non-signer)] followed by the caller's accounts in the caller's order with
\* their flags, nothing added, dropped, deduplicated or reordered; the
\* caller's array is left as it was.
C7_CustomVerbatim ==
    (call.op = "executeCustomInstruction" /\ Derivable(call.args.smartAccountOwner))
    => LET keys == TheInstruction.keys
       IN  /\ IsTx
           /\ TheInstruction.args = <<call.args.instructionData>>
           /\ Len(keys) = 3 + Len(call.args.remainingAccounts)
           /\ keys[3] = Meta(call.args.targetProgram, FALSE, FALSE)
           /\ SubSeq(keys, 4, Len(keys)) = call.args.remainingAccounts
           /\ call.args.remainingAccountsAfter = call.args.remainingAccounts

\* an empty payload forwarded with a caller's list that repeats an account,
\* the target program itself
C7_Witness ==
    /\ call.op = "executeCustomInstruction"
    /\ IsTx
    /\ call.args.instructionData = <<>>
    /\ call.args.targetProgram = Pk("k3")
    /\ call.args.remainingAccounts =
          <<Meta(Pk("k3"), FALSE, FALSE), Meta(Pk("k3"), FALSE, FALSE)>>

\* the construction identity occurs in the instruction
UserOccurs ==
    \/ \E i \in 1..Len(TheInstruction.keys) :
          \/ TheInstruction.keys[i].pubkey = sdk.userPublicKey
          \/ /\ TheInstruction.keys[i].pubkey.kind = "pda"
             /\ TheInstruction.keys[i].pubkey.of = sdk.userPublicKey.of
    \/ \E i \in 1..Len(TheInstruction.args) : TheInstruction.args[i] = sdk.userPublicKey

\* the same call with the construction identity given as the owner
WithOwner(owner) ==
    CASE call.op = "initialize"     -> InitializeTx(sdk, owner)
      [] call.op = "addDelegate"    -> AddDelegateTx(sdk, call.args.delegate, owner)
      [] call.op = "removeDelegate" -> RemoveDelegateTx(sdk, call.args.delegate, owner)
      [] call.op = "pause"          -> PauseTx(sdk, owner)
      [] call.op = "unpause"        -> UnpauseTx(sdk, owner)

\* the caller passes the construction identity itself, as owner or delegate
UserPassed ==
    \/ call.args.owner = sdk.userPublicKey
    \/ call.op \in {"addDelegate", "removeDelegate"} /\ call.args.delegate = sdk.userPublicKey

\* C8 as stated: for initialize, addDelegate, removeDelegate, pause and
\* unpause, a call without an owner gives what the call with the construction
\* identity as owner gives; with an owner given, the owner account and the
\* derived address come from that argument and the construction identity
\* occurs nowhere in the instruction.
C8_AsStated ==
    call.op \in OwnerOps
    => /\ call.args.owner = NoKey => call.result = WithOwner(sdk.userPublicKey)
       /\ (call.args.owner \in Keys /\ IsTx) =>
             /\ TheInstruction.keys[2].pubkey = call.args.owner
             /\ TheInstruction.keys[1].pubkey = ExpectedPda(call.args.owner)
             /\ ~UserOccurs

\* C8, amended: a call without an owner gives what the call with the
\* construction identity as owner gives; with an owner given, the owner
\* account and the derived address come from that argument, and the
\* construction identity occurs in the instruction only where the caller
\* passed it, as the owner or as the delegate.
C8_OwnerDefault ==
    call.op \in OwnerOps
    => /\ call.args.owner = NoKey =>
             /\ call.result = WithOwner(sdk.userPublicKey)
             /\ IsTx => TheInstruction.keys[2].pubkey = sdk.userPublicKey
       /\ (call.args.owner \in Keys /\ IsTx) =>
             /\ TheInstruction.keys[2].pubkey = call.args.owner
             /\ TheInstruction.keys[1].pubkey = ExpectedPda(call.args.owner)
             /\ UserOccurs => UserPassed

\* addDelegate composed for an explicit owner that is not the construction
\* identity
C8_Witness ==
    /\ call.op = "addDelegate"
    /\ call.args.owner \in Keys \ {sdk.userPublicKey}
    /\ call.args.delegate # sdk.userPublicKey
    /\ IsTx

\* C9: every transaction a composer method returns has no fee payer, no
\* recent blockhash and no signature, and the provider's signing methods
\* always fail.
C9_Unsigned ==
    /\ (call.op \in ComposerOps /\ IsTx) =>
          /\ call.result.tx.feePayer = NoKey
          /\ call.result.tx.recentBlockhash = Null
          /\ call.result.tx.signatures = <<>>
    /\ call.op \in {"signTransaction", "signAllTransactions"} =>
          call.result.kind = "error"
    /\ call.op \in ComposerOps => call.result.kind \in {"tx", "error"}

\* a token transfer has been composed
C9_Witness ==
    /\ call.op = "executeTokenTransfer"
    /\ IsTx
    /\ call.result.tx.feePayer = NoKey

\* C10: findSmartAccountPDA gives the same (address, bump) for the same owner
\* on every call, whatever the instance and whatever ran in between, and the
\* pair is the one fixed by the seed "smart", the owner and the program
\* identifier; it makes no network call.
C10_Deterministic ==
    /\ \A o \in Keys :
          /\ Cardinality(pdaLog[o].results) <= 1
          /\ \A r \in pdaLog[o].results :
                IF Derivable(o)
                THEN r = [kind |-> "pda", address |-> ExpectedPda(o),
                          bump |-> ExpectedPda(o).bump]
                ELSE r.kind = "error"
    /\ call.op = "findSmartAccountPDA" => ~call.network

\* the address of an owner has been derived twice, the last time on an
\* instance whose construction identity is another key
C10_Witness ==
    \E o \in Keys :
        /\ pdaLog[o].calls >= 2
        /\ call.op = "findSmartAccountPDA"
        /\ call.args.owner = o
        /\ call.result.kind = "pda"
        /\ sdk.userPublicKey # o

\* the bumps the derivation may try for this owner whose candidate is off the
\* curve
OffCurveBumps(owner) ==
    { b \in MinBump..MaxBump : ~IsOnCurve(<<"smart", owner>>, b, IdlAddress) }

\* the owner a composer method derives the smart account from
DerivingOwner ==
    IF call.op \in OwnerOps THEN EffectiveOwner ELSE call.args.smartAccountOwner

\* C11: address derivation never returns an on-curve address: it gives the
\* address of the first bump, from 255 downward, whose candidate is off the
\* curve, or it fails when no bump it tries has an off-curve candidate; in
\* that case every composer method that derives the address fails too and
\* returns no transaction, without any network interaction.
C11_DerivationFails ==
    /\ call.op = "findSmartAccountPDA" =>
          LET owner == call.args.owner
              off   == OffCurveBumps(owner)
          IN  IF off = {}
              THEN call.result.kind = "error"
              ELSE /\ call.result.kind = "pda"
                   /\ call.result.bump \in off
                   /\ \A b \in off : b <= call.result.bump
                   /\ call.result.address =
                         PdaAddress(<<"smart", owner>>, call.result.bump, IdlAddress)
    /\ call.op \in ComposerOps =>
          /\ OffCurveBumps(DerivingOwner) = {} =>
                (call.result.kind = "error" /\ ~call.network)
          /\ IsTx =>
                /\ TheInstruction.keys[1].pubkey.kind = "pda"
                /\ \A i \in 1..Len(TheInstruction.keys) :
                      LET key == TheInstruction.keys[i].pubkey
                      IN  key.kind = "pda" =>
                             /\ key.bump \in MinBump..MaxBump
                             /\ ~IsOnCurve(<<"smart", Pk(key.of)>>, key.bump, IdlAddress)

\* a custom instruction was refused for an owner whose only off-curve
\* candidate is the one of the bump 0, which the derivation does not try
C11_Witness ==
    /\ call.op = "executeCustomInstruction"
    /\ curveRun[call.args.smartAccountOwner] = MaxBump
    /\ call.result.kind = "error"

\* C12: calls that overlap on one instance are independent: no composer or
\* read operation changes the instance (connection, provider, program
\* identifier, construction identity) or the process-wide provider, and under
\* every interleaving each call gives the result it gives when it runs alone
\* on the instance.
C12_Independent ==
    /\ [](/\ \A p \in BagToSet(inflight) : p.outcome = ComposeTx(sdk, p.op, p.args)
          /\ call.op \in ComposerOps => call.result = ComposeTx(sdk, call.op, call.args))
    /\ [][sdk.live => (sdk' = sdk /\ globalProvider' = globalProvider)]_vars

\* a call without an owner has settled with its transaction while a call for
\* another owner is in flight
C12_Witness ==
    /\ call.op = "initialize"
    /\ call.args.owner = NoKey
    /\ IsTx
    /\ \E p \in BagToSet(inflight) : p.op = "addDelegate" /\ p.args.owner # sdk.userPublicKey

\* C13: creating an instance never changes ambient configuration: after a
\* construction, the first or a later one with another connection or
\* identity, the process-wide current provider is what it was before.
C13_GlobalProviderKept ==
    [][call'.op = "constructor" => globalProvider' = globalProvider]_vars

====
